---- MODULE Spec2Model ----
(***************************************************************************)
(* Model of the stock update job of watson-stock-advisor                   *)
(* (src/app/services/stockUpdate.js): StockUpdate.run and the functions it *)
(* calls.  One action is one turn of the JavaScript event loop: the        *)
(* completion of one network call together with every promise reaction    *)
(* (microtask) that completion triggers.                                   *)
(***************************************************************************)
EXTENDS Integers, Sequences, FiniteSets

(***************************************************************************)
(* Bounds of the model.                                                    *)
(***************************************************************************)
\* article URLs are 1..NumUrls
NumUrls == 3
\* article dates (crawl_date, as a time stamp) are 1..MaxDate, or NoDate
MaxDate == 3
\* a discovery result holds at most MaxBatch raw results
MaxBatch == 2
\* run() is called at most MaxRuns times
MaxRuns == 2

\* config.MAX_ARTICLES_PER_COMPANY, scaled down
MAX_ARTICLES_PER_COMPANY == 2

\* the date of an article whose crawl_date is undefined (new Date(undefined)
\* is an invalid date, whose difference with any date is NaN)
NoDate == -1

Companies == {"c1", "c2"}
Urls == 1..NumUrls
Dates == 1..MaxDate

\* an article as parseArticle builds it; img is whether imageURL was attached
Article == [url : Urls, date : Dates \cup {NoDate}, img : BOOLEAN]

Min(S) == CHOOSE x \in S : \A y \in S : x <= y
Max(S) == CHOOSE x \in S : \A y \in S : x >= y

Range(s) == {s[i] : i \in 1..Len(s)}

\* the sequences over S of length at most n
SeqsUpTo(S, n) == UNION {[1..k -> S] : k \in 0..n}

(***************************************************************************)
(* sortArticles and the comparator it hands to Array.prototype.sort.       *)
(***************************************************************************)
\* function(a, b) { return new Date(b.date) - new Date(a.date); }
\* a NaN result is read as +0 by the sort
compareArticles(a, b) ==
  IF a.date = NoDate \/ b.date = NoDate THEN 0 ELSE b.date - a.date

\* whether the comparator is a consistent comparison for the elements of s:
\* an undated article compares equal to two articles that differ
ConsistentFor(s) ==
  \A i, j, k \in 1..Len(s) :
    (compareArticles(s[i], s[j]) = 0 /\ compareArticles(s[j], s[k]) = 0)
      => compareArticles(s[i], s[k]) = 0

\* x placed into the sorted sequence s, after every element it does not precede
InsertSorted(x, s) ==
  LET later == {i \in 1..Len(s) : compareArticles(s[i], x) > 0}
      k == IF later = {} THEN Len(s) + 1 ELSE Min(later)
  IN SubSeq(s, 1, k - 1) \o <<x>> \o SubSeq(s, k, Len(s))

RECURSIVE StableSort(_)
StableSort(s) ==
  IF s = <<>> THEN <<>>
  ELSE InsertSorted(s[Len(s)], StableSort(SubSeq(s, 1, Len(s) - 1)))

ArticleOrders(s) ==
  {[i \in 1..Len(s) |-> s[p[i]]] :
     p \in {q \in [1..Len(s) -> 1..Len(s)] : \A i, j \in 1..Len(s) : q[i] = q[j] => i = j}}

\* the results articles.sort(comparator) can leave in the array: the stable
\* sort for a consistent comparator, an implementation-defined order otherwise
sortArticles(s) ==
  IF ConsistentFor(s) THEN {StableSort(s)} ELSE ArticleOrders(s)

(***************************************************************************)
(* articleContains, filterDuplicates and the filter of updateStocksData.   *)
(***************************************************************************)
articleContains(article, articles) ==
  \E x \in 1..Len(articles) : article.url = articles[x].url

\* keeps the first article of every URL
RECURSIVE filterDuplicates(_)
filterDuplicates(articles) ==
  IF articles = <<>> THEN <<>>
  ELSE LET front == filterDuplicates(SubSeq(articles, 1, Len(articles) - 1))
           last == articles[Len(articles)]
       IN IF articleContains(last, front) THEN front ELSE Append(front, last)

\* the filter of lines 280-289 passing every article of the discovery result
keepEveryArticle(articles, existingArticles) == articles

\* the articles of the discovery result that are not in the history
filterNewArticles(articles, existingArticles) ==
  LET articleIsNew(a) == ~articleContains(a, existingArticles)
  IN SelectSeq(articles, articleIsNew)

\* insertNewArticles without the cut of lines 158-162
capArticlesNever(updatedArticles) == updatedArticles

\* the cut of line 161 taking one article less than the maximum
capArticlesShort(updatedArticles) ==
  IF Len(updatedArticles) >= MAX_ARTICLES_PER_COMPANY
    THEN SubSeq(updatedArticles, 1, MAX_ARTICLES_PER_COMPANY - 1)
    ELSE updatedArticles

\* updatedArticles cut to the configured maximum
capArticles(updatedArticles) ==
  IF Len(updatedArticles) > MAX_ARTICLES_PER_COMPANY
    THEN SubSeq(updatedArticles, 1, MAX_ARTICLES_PER_COMPANY)
    ELSE updatedArticles

\* the histories insertNewArticles can store for a record
mergedHistories(existingArticles, newArticles) ==
  {capArticles(u) : u \in sortArticles(existingArticles \o newArticles)}

(***************************************************************************)
(* Dates of the market-data API and price alignment.  A price history is a *)
(* function from days to prices; a price list is a sequence of pairs.      *)
(***************************************************************************)
\* utils.convertArticleDateToAVDate: the day of a crawl date (two time
\* stamps to a day)
convertArticleDateToAVDate(date) == (date + 1) \div 2

\* utils.avDateStringToDate: the Date object of a day (its first time stamp)
avDateStringToDate(day) == 2 * day - 1

\* the days the market-data API quotes, around the days of the articles
PriceDays == 0..(convertArticleDateToAVDate(MaxDate) + 1)
Prices == {10, 11}
PricePair == [date : PriceDays, price : Prices]
PriceMap == UNION {[S -> Prices] : S \in SUBSET PriceDays}

\* utils.convertPriceMapToList: the pairs of the map, ascending by date
RECURSIVE convertPriceMapToList(_)
convertPriceMapToList(priceMap) ==
  IF DOMAIN priceMap = {} THEN <<>>
  ELSE LET last == Max(DOMAIN priceMap)
           rest == [d \in DOMAIN priceMap \ {last} |-> priceMap[d]]
       IN Append(convertPriceMapToList(rest), [date |-> last, price |-> priceMap[last]])

\* getPairForDate returning, for a date after every pair, a pair of that date
\* with the price of the last pair, in place of the last pair (line 246)
getPairForDateKeyed(date, priceList) ==
  IF date = NoDate THEN <<>>
  ELSE
    LET realDate == avDateStringToDate(date)
        numPairs == Len(priceList)
        returns == {i \in 1..numPairs :
                      \/ priceList[i].date = date
                      \/ avDateStringToDate(priceList[i].date) > realDate}
    IN IF returns # {}
         THEN LET i == Min(returns)
                  thisPair == priceList[i]
              IN IF thisPair.date = date THEN <<thisPair>>
                 ELSE <<[date |-> date,
                         price |-> IF i - 1 >= 1 THEN priceList[i - 1].price
                                   ELSE thisPair.price]>>
         ELSE IF numPairs > 0 /\ realDate > avDateStringToDate(priceList[numPairs].date)
                THEN <<[date |-> date, price |-> priceList[numPairs].price]>>
                ELSE <<>>

\* getPairForDate returning undefined when no pair precedes the first later
\* pair, in place of the price of that pair (line 232)
getPairForDateNoFallback(date, priceList) ==
  IF date = NoDate THEN <<>>
  ELSE
    LET realDate == avDateStringToDate(date)
        numPairs == Len(priceList)
        returns == {i \in 1..numPairs :
                      \/ priceList[i].date = date
                      \/ avDateStringToDate(priceList[i].date) > realDate}
    IN IF returns # {}
         THEN LET i == Min(returns)
                  thisPair == priceList[i]
              IN IF thisPair.date = date THEN <<thisPair>>
                 ELSE IF i - 1 >= 1
                        THEN <<[date |-> date, price |-> priceList[i - 1].price]>>
                        ELSE <<>>
         ELSE IF numPairs > 0 /\ realDate > avDateStringToDate(priceList[numPairs].date)
                THEN <<priceList[numPairs]>>
                ELSE <<>>

\* getPairForDate without lines 234-238: the price of the first later pair
getPairForDateNextPrice(date, priceList) ==
  IF date = NoDate THEN <<>>
  ELSE
    LET realDate == avDateStringToDate(date)
        numPairs == Len(priceList)
        returns == {i \in 1..numPairs :
                      \/ priceList[i].date = date
                      \/ avDateStringToDate(priceList[i].date) > realDate}
    IN IF returns # {}
         THEN LET thisPair == priceList[Min(returns)]
              IN IF thisPair.date = date THEN <<thisPair>>
                 ELSE <<[date |-> date, price |-> thisPair.price]>>
         ELSE IF numPairs > 0 /\ realDate > avDateStringToDate(priceList[numPairs].date)
                THEN <<priceList[numPairs]>>
                ELSE <<>>

\* the result is <<>> for undefined and <<pair>> for a pair
getPairForDate(date, priceList) ==
  IF date = NoDate THEN <<>>
  ELSE
    LET realDate == avDateStringToDate(date)
        numPairs == Len(priceList)
        \* the iterations that return
        returns == {i \in 1..numPairs :
                      \/ priceList[i].date = date
                      \/ avDateStringToDate(priceList[i].date) > realDate}
    IN IF returns # {}
         THEN LET i == Min(returns)
                  thisPair == priceList[i]
                  previousInd == i - 1
              IN IF thisPair.date = date THEN <<thisPair>>
                 ELSE <<[date |-> date,
                         price |-> IF previousInd >= 1 THEN priceList[previousInd].price
                                   ELSE thisPair.price]>>
         \* after the loop thisPair (a var) is the last pair of the list
         ELSE IF numPairs > 0 /\ realDate > avDateStringToDate(priceList[numPairs].date)
                THEN <<priceList[numPairs]>>
                ELSE <<>>

\* the loop of lines 196-202 keeping the stored price of a date it has
combinePriceHistoryStoredWins(price_history, updatedHistory) ==
  [d \in DOMAIN price_history \cup DOMAIN updatedHistory |->
     IF d \in DOMAIN price_history THEN price_history[d] ELSE updatedHistory[d]]

\* the price history with the fetched one laid over it (getLatestStockPrices)
combinePriceHistory(price_history, updatedHistory) ==
  [d \in DOMAIN price_history \cup DOMAIN updatedHistory |->
     IF d \in DOMAIN updatedHistory THEN updatedHistory[d] ELSE price_history[d]]

\* the days of the dated articles (neededDates, as a set)
neededDates(articles) ==
  {convertArticleDateToAVDate(articles[i].date) :
     i \in {j \in 1..Len(articles) : articles[j].date # NoDate}}

\* the price history kept for the articles (filteredPriceHistory)
filterPriceHistory(priceMap, articles) ==
  LET sortedPrices == convertPriceMapToList(priceMap)
      pairs == UNION {Range(getPairForDate(d, sortedPrices)) : d \in neededDates(articles)}
  IN [d \in {p.date : p \in pairs} |-> (CHOOSE p \in pairs : p.date = d).price]

(***************************************************************************)
(* The state of the job.                                                   *)
(***************************************************************************)
VARIABLES
  configured,   \* config.configured
  store,        \* the documents of the database, by company
  runs,         \* the number of calls of run() so far
  companies,    \* the parameter companies of the current run(): a list, or none given
  result,       \* the promise run() returned: idle (no run yet), pending, resolved, rejected
  listing,      \* stock_db.search() of the run: none, pending, done, failed
  docs,         \* docs / stockData / results: the records in memory, by company
  query,        \* discovery.query(company) of the run, by company
  articleData,  \* articleData of getArticleDataForCompanies, by company
  delivered,    \* whether Promise.all(promises) has settled and called back
  branch,       \* the promise updateStocksData makes for a company
  writes,       \* the pending calls of stock_db.insertOrUpdate
  failed,       \* the companies whose call of this run failed (the log of line 168)
  duplicates,   \* the companies whose query returned a URL twice (the log of line 391)
  probe         \* a call of getPairForDate on its own: its parameters and its result

jobVars == <<configured, store, runs, companies, result, listing, docs, query,
             articleData, delivered, branch, writes, failed, duplicates>>

vars == <<jobVars, probe>>

(***************************************************************************)
(* getImageForArticle and getImages, lines 61-135.                         *)
(***************************************************************************)
\* what the request of a page calls back with: a page with an image, a page
\* without image, or an error
PageOutcomes == {"found", "noimage", "error"}

\* the promise of getImageForArticle before the request has called back
PendingImage == [state |-> "pending", value |-> "undefined"]

\* getImageForArticle calling fail() on an error of the request too
getImageForArticleSoft(outcome) ==
  CASE outcome = "found" -> [state |-> "resolved", value |-> "image"]
    [] outcome = "noimage" -> [state |-> "resolved", value |-> "undefined"]
    [] outcome = "error" -> [state |-> "resolved", value |-> "undefined"]
    [] OTHER -> PendingImage

\* the promise of getImageForArticle once the request has called back with
\* the outcome: res({url, imageURL}) of line 88, res() of line 68, rej() of
\* line 93
getImageForArticle(outcome) ==
  CASE outcome = "found" -> [state |-> "resolved", value |-> "image"]
    [] outcome = "noimage" -> [state |-> "resolved", value |-> "undefined"]
    [] outcome = "error" -> [state |-> "rejected", value |-> "undefined"]
    [] OTHER -> PendingImage

\* getImages over the promises as they are, without the catch of lines
\* 111-114: one rejection and the catch of line 131 leaves no result
getImagesFailFast(articles, images) ==
  IF \E x \in 1..Len(images) : images[x].state = "rejected" THEN {}
  ELSE {articles[x].url : x \in {y \in 1..Len(articles) : images[y].value = "image"}}

\* what getImages resolves with, given the settled promises of the articles:
\* the catch of lines 111-114 turns a rejection into its reason, and lines
\* 124-129 keep the results that are defined; the result is the set of the
\* URLs that have an image URL
getImages(articles, images) ==
  LET tempResults == [x \in 1..Len(images) |-> images[x].value]
  IN {articles[x].url : x \in {y \in 1..Len(articles) : tempResults[y] = "image"}}

\* the new articles with the image URLs of the results getImages resolves
\* with, lines 145-154
withImages(newArticles, images) ==
  LET imgResults == getImages(newArticles, images)
  IN [y \in 1..Len(newArticles) |->
        [newArticles[y] EXCEPT !.img = (newArticles[y].url \in imgResults)]]

\* a document that updateStocksData builds for a company the store lacks
newStockDatum == [ticker |-> TRUE, history |-> <<>>, price_history |-> <<>>]

\* phase: none, price (the price request is pending), images (page requests
\* are pending), done; price: how getLatestStockPrices settled (none, ok,
\* failed, noticker); pages: the state of the page request of each new article;
\* images: the promise getImageForArticle returned for each new article;
\* stored: the price history of the record when the branch starts; fetched:
\* the price history the price request resolved with (updatedHistory)
NoBranch == [phase |-> "none", existing |-> <<>>, newArticles |-> <<>>,
             price |-> "none", pages |-> <<>>, images |-> <<>>, stored |-> <<>>,
             fetched |-> <<>>]

NoArg == [given |-> FALSE, list |-> {}]

(***************************************************************************)
(* run(companies), lines 473-480: the executor up to stock_db.search().    *)
(* Without configuration reject() is called and stock_db, which is false,  *)
(* has no search: the TypeError ends the executor of the rejected promise. *)
(***************************************************************************)
run(a) ==
  /\ result \in {"idle", "resolved", "rejected"}
  /\ runs < MaxRuns
  /\ runs' = runs + 1
  /\ companies' = a
  /\ result' = IF configured THEN "pending" ELSE "rejected"
  /\ listing' = IF configured THEN "pending" ELSE "none"
  /\ docs' = <<>>
  /\ query' = [c \in Companies |-> "none"]
  /\ articleData' = <<>>
  /\ delivered' = FALSE
  /\ branch' = [c \in Companies |-> NoBranch]
  /\ failed' = {}
  /\ duplicates' = {}
  /\ UNCHANGED <<configured, store, writes, probe>>

\* stock_db.search() fails: lines 510-513
searchFails ==
  /\ listing = "pending"
  /\ listing' = "failed"
  /\ result' = "rejected"
  /\ UNCHANGED <<configured, store, runs, companies, docs, query, articleData,
                 delivered, branch, writes, failed, duplicates, probe>>

\* searchSucceeds without the test of line 492: an empty list is handed on
searchSucceedsUnchecked ==
  /\ listing = "pending"
  /\ listing' = "done"
  /\ docs' = store
  /\ LET list == IF companies.given THEN companies.list ELSE DOMAIN store
     IN /\ companies' = [given |-> TRUE, list |-> list]
        /\ query' = [c \in Companies |-> IF c \in list THEN "pending" ELSE "none"]
  /\ UNCHANGED <<configured, store, runs, result, articleData, delivered, branch, writes,
                 failed, duplicates, probe>>

\* stock_db.search() succeeds: lines 481-509 and the loop of
\* getArticleDataForCompanies, lines 426-437
searchSucceeds ==
  /\ listing = "pending"
  /\ listing' = "done"
  /\ docs' = store
  \* if no companies provided, update all in DB
  /\ LET list == IF companies.given THEN companies.list ELSE DOMAIN store
     IN /\ companies' = [given |-> TRUE, list |-> list]
        /\ IF list # {}
             THEN /\ query' = [c \in Companies |-> IF c \in list THEN "pending" ELSE "none"]
                  /\ UNCHANGED result
             ELSE /\ result' = "rejected"
                  /\ UNCHANGED query
  /\ UNCHANGED <<configured, store, runs, articleData, delivered, branch, writes,
                 failed, duplicates, probe>>

(***************************************************************************)
(* updateStocksData, lines 260-346.                                        *)
(***************************************************************************)
\* startBranch without the test of line 291: the prices are fetched for a
\* company without new articles too
startBranchAlways(stockDatum, articles) ==
  LET existingArticles == stockDatum.history
      newArticles == filterNewArticles(articles, existingArticles)
      phase == IF stockDatum.ticker THEN "price"
               ELSE IF newArticles = <<>> THEN "done" ELSE "images"
  IN [phase |-> phase,
      existing |-> existingArticles,
      newArticles |-> newArticles,
      price |-> IF phase = "images" THEN "noticker" ELSE "none",
      pages |-> IF phase = "images" THEN [i \in 1..Len(newArticles) |-> "pending"] ELSE <<>>,
      images |-> IF phase = "images" THEN [i \in 1..Len(newArticles) |-> PendingImage]
                 ELSE <<>>,
      stored |-> stockDatum.price_history,
      fetched |-> <<>>]

\* the executor of the promise of one company, lines 267-330, with the
\* rejection of getLatestStockPrices for a record without ticker (lines
\* 185-188) and the page requests getImages then issues (lines 108-115)
startBranch(stockDatum, articles) ==
  LET existingArticles == stockDatum.history
      newArticles == filterNewArticles(articles, existingArticles)
      phase == IF newArticles = <<>> THEN "done"
               ELSE IF stockDatum.ticker THEN "price" ELSE "images"
  IN [phase |-> phase,
      existing |-> existingArticles,
      newArticles |-> newArticles,
      price |-> IF phase = "images" THEN "noticker" ELSE "none",
      pages |-> IF phase = "images" THEN [i \in 1..Len(newArticles) |-> "pending"] ELSE <<>>,
      images |-> IF phase = "images" THEN [i \in 1..Len(newArticles) |-> PendingImage]
                 ELSE <<>>,
      stored |-> stockDatum.price_history,
      fetched |-> <<>>]

\* Promise.all(catches) of lines 338-345 has resolved
allBranchesDone(br, data) == \A c \in DOMAIN data : br[c].phase = "done"

\* the records after the loop of lines 265-336: one is made for each company
\* the store does not hold, line 273
withNewStockData(stockData, data) ==
  [c \in DOMAIN stockData \cup DOMAIN data |->
     IF c \in DOMAIN stockData THEN stockData[c] ELSE newStockDatum]

(***************************************************************************)
(* getArticleDataForCompany and getArticleDataForCompanies, lines 382-448, *)
(* and the callback of run, lines 493-505.                                 *)
(***************************************************************************)
\* the query of company c resolves with the raw results
querySucceeds(c, raw) ==
  /\ query[c] = "pending"
  /\ query' = [query EXCEPT ![c] = "ok"]
  /\ LET data == [d \in DOMAIN articleData \cup {c} |->
                    IF d = c THEN filterDuplicates(raw) ELSE articleData[d]]
         last == ~delivered /\ \A d \in Companies : query'[d] \in {"none", "ok"}
         stockData == withNewStockData(docs, data)
         started == [d \in Companies |->
                       IF d \in DOMAIN data THEN startBranch(stockData[d], data[d])
                       ELSE NoBranch]
     IN /\ articleData' = data
        /\ duplicates' = IF filterDuplicates(raw) # raw THEN duplicates \cup {c} ELSE duplicates
        /\ IF last
             THEN /\ delivered' = TRUE
                  /\ docs' = stockData
                  /\ branch' = started
                  /\ result' = IF allBranchesDone(started, data) THEN "resolved" ELSE result
             ELSE UNCHANGED <<delivered, docs, branch, result>>
  /\ UNCHANGED <<configured, store, runs, companies, listing, writes, failed, probe>>

\* queryFails with the error of c left out of what run is told
queryFailsUnreported(c) ==
  /\ query[c] = "pending"
  /\ query' = [query EXCEPT ![c] = "failed"]
  /\ UNCHANGED <<configured, store, runs, companies, result, listing, docs, articleData,
                 delivered, branch, writes, failed, duplicates, probe>>

\* the query of company c rejects: Promise.all rejects with it, and the
\* callback of run gets the error of c, joined, and rejects
queryFails(c) ==
  /\ query[c] = "pending"
  /\ query' = [query EXCEPT ![c] = "failed"]
  /\ IF delivered
       THEN UNCHANGED <<delivered, result>>
       ELSE /\ delivered' = TRUE
            /\ result' = "rejected"
  /\ UNCHANGED <<configured, store, runs, companies, listing, docs, articleData,
                 branch, writes, failed, duplicates, probe>>

(***************************************************************************)
(* getLatestStockPrices, lines 182-208, and its two handlers in            *)
(* updateStocksData, lines 292-325.                                        *)
(***************************************************************************)
\* priceSucceeds with one price history object shared by the records
priceSucceedsShared(c, updatedHistory) ==
  /\ branch[c].phase = "price"
  /\ LET b == branch[c]
         priceMap == combinePriceHistory(docs[c].price_history, updatedHistory)
         filtered == filterPriceHistory(priceMap, b.existing \o b.newArticles)
     IN /\ docs' = [d \in DOMAIN docs |-> [docs[d] EXCEPT !.price_history = filtered]]
        /\ branch' = [branch EXCEPT ![c].phase = "images",
                                    ![c].price = "ok",
                                    ![c].fetched = updatedHistory,
                                    ![c].pages = [i \in 1..Len(b.newArticles) |-> "pending"],
                                    ![c].images = [i \in 1..Len(b.newArticles) |-> PendingImage]]
  /\ UNCHANGED <<configured, store, runs, companies, result, listing, query,
                 articleData, delivered, writes, failed, duplicates, probe>>

priceSucceeds(c, updatedHistory) ==
  /\ branch[c].phase = "price"
  /\ LET b == branch[c]
         priceMap == combinePriceHistory(docs[c].price_history, updatedHistory)
         filtered == filterPriceHistory(priceMap, b.existing \o b.newArticles)
     IN /\ docs' = [docs EXCEPT ![c].price_history = filtered]
        /\ branch' = [branch EXCEPT ![c].phase = "images",
                                    ![c].price = "ok",
                                    ![c].fetched = updatedHistory,
                                    ![c].pages = [i \in 1..Len(b.newArticles) |-> "pending"],
                                    ![c].images = [i \in 1..Len(b.newArticles) |-> PendingImage]]
  /\ UNCHANGED <<configured, store, runs, companies, result, listing, query,
                 articleData, delivered, writes, failed, duplicates, probe>>

\* priceFails leaving the record without the prices it had
priceFailsClearing(c) ==
  /\ branch[c].phase = "price"
  /\ docs' = [docs EXCEPT ![c].price_history = <<>>]
  /\ branch' = [branch EXCEPT ![c].phase = "images",
                              ![c].price = "failed",
                              ![c].pages = [i \in 1..Len(branch[c].newArticles) |-> "pending"],
                              ![c].images = [i \in 1..Len(branch[c].newArticles) |-> PendingImage]]
  /\ UNCHANGED <<configured, store, runs, companies, result, listing, query,
                 articleData, delivered, writes, failed, duplicates, probe>>

\* priceFails without the catch of lines 319-325: res is never called and the
\* promise of the company stays pending
priceFailsUncaught(c) ==
  /\ branch[c].phase = "price"
  /\ branch' = [branch EXCEPT ![c].phase = "abandoned",
                              ![c].price = "failed"]
  /\ UNCHANGED <<configured, store, runs, companies, result, listing, docs, query,
                 articleData, delivered, writes, failed, duplicates, probe>>

priceFails(c) ==
  /\ branch[c].phase = "price"
  /\ branch' = [branch EXCEPT ![c].phase = "images",
                              ![c].price = "failed",
                              ![c].pages = [i \in 1..Len(branch[c].newArticles) |-> "pending"],
                              ![c].images = [i \in 1..Len(branch[c].newArticles) |-> PendingImage]]
  /\ UNCHANGED <<configured, store, runs, companies, result, listing, docs, query,
                 articleData, delivered, writes, failed, duplicates, probe>>

(***************************************************************************)
(* getImageForArticle, getImages and insertNewArticles, lines 61-174.      *)
(***************************************************************************)
\* pageDone for branches that run one after the other: the page of a company
\* is taken up only when no other company waits for its prices
pageDoneInTurn(c, i, outcome) ==
  /\ \A d \in Companies \ {c} : branch[d].phase # "price"
  /\ branch[c].phase = "images"
  /\ i \in 1..Len(branch[c].pages)
  /\ branch[c].pages[i] = "pending"
  /\ LET pages == [branch[c].pages EXCEPT ![i] = outcome]
         images == [branch[c].images EXCEPT ![i] = getImageForArticle(outcome)]
         newArticles == withImages(branch[c].newArticles, images)
     IN IF \E j \in 1..Len(images) : images[j].state = "pending"
          THEN /\ branch' = [branch EXCEPT ![c].pages = pages, ![c].images = images]
               /\ UNCHANGED <<docs, writes, result>>
          ELSE \E history \in mergedHistories(docs[c].history, newArticles) :
                 LET stockDatum == [docs[c] EXCEPT !.history = history]
                     done == [branch EXCEPT ![c].pages = pages,
                                            ![c].images = images,
                                            ![c].newArticles = newArticles,
                                            ![c].phase = "done"]
                 IN /\ docs' = [docs EXCEPT ![c] = stockDatum]
                    /\ writes' = writes \cup {[company |-> c, doc |-> stockDatum,
                                               run |-> runs]}
                    /\ branch' = done
                    /\ result' = IF allBranchesDone(done, articleData)
                                   THEN "resolved" ELSE result
  /\ UNCHANGED <<configured, store, runs, companies, listing, query, articleData,
                 delivered, failed, duplicates, probe>>

\* the request of the page of the i-th new article of c calls back; after
\* the last one getImages resolves and insertNewArticles merges, stores and
\* calls back
pageDone(c, i, outcome) ==
  /\ branch[c].phase = "images"
  /\ i \in 1..Len(branch[c].pages)
  /\ branch[c].pages[i] = "pending"
  /\ LET pages == [branch[c].pages EXCEPT ![i] = outcome]
         images == [branch[c].images EXCEPT ![i] = getImageForArticle(outcome)]
         newArticles == withImages(branch[c].newArticles, images)
     IN IF \E j \in 1..Len(images) : images[j].state = "pending"
          THEN /\ branch' = [branch EXCEPT ![c].pages = pages, ![c].images = images]
               /\ UNCHANGED <<docs, writes, result>>
          ELSE \E history \in mergedHistories(docs[c].history, newArticles) :
                 LET stockDatum == [docs[c] EXCEPT !.history = history]
                     done == [branch EXCEPT ![c].pages = pages,
                                            ![c].images = images,
                                            ![c].newArticles = newArticles,
                                            ![c].phase = "done"]
                 IN /\ docs' = [docs EXCEPT ![c] = stockDatum]
                    /\ writes' = writes \cup {[company |-> c, doc |-> stockDatum,
                                               run |-> runs]}
                    /\ branch' = done
                    /\ result' = IF allBranchesDone(done, articleData)
                                   THEN "resolved" ELSE result
  /\ UNCHANGED <<configured, store, runs, companies, listing, query, articleData,
                 delivered, failed, duplicates, probe>>

\* stock_db.insertOrUpdate(stockDatum) of the call w succeeds
insertSucceeds(w) ==
  /\ w \in writes
  /\ writes' = writes \ {w}
  /\ store' = [c \in DOMAIN store \cup {w.company} |->
                 IF c = w.company THEN w.doc ELSE store[c]]
  /\ UNCHANGED <<configured, runs, companies, result, listing, docs, query,
                 articleData, delivered, branch, failed, duplicates, probe>>

\* insertFails with the failure handed on to the promise of run
insertFailsRejecting(w) ==
  /\ w \in writes
  /\ writes' = writes \ {w}
  /\ failed' = IF w.run = runs THEN failed \cup {w.company} ELSE failed
  /\ result' = IF w.run = runs THEN "rejected" ELSE result
  /\ UNCHANGED <<configured, store, runs, companies, listing, docs, query,
                 articleData, delivered, branch, duplicates, probe>>

\* it fails: the error is logged, line 168
insertFails(w) ==
  /\ w \in writes
  /\ writes' = writes \ {w}
  /\ failed' = IF w.run = runs THEN failed \cup {w.company} ELSE failed
  /\ UNCHANGED <<configured, store, runs, companies, result, listing, docs, query,
                 articleData, delivered, branch, duplicates, probe>>

(***************************************************************************)
(* The next-state relation over the companies Cs, the raw results a        *)
(* discovery query can return, the price histories the market-data API can *)
(* return and the outcomes of a page request.                              *)
(***************************************************************************)
\* the parameters run() is called with
RunArgs(Cs) == {NoArg} \cup [given : {TRUE}, list : SUBSET Cs]

NextOver(Cs, Results, Fetched, Outcomes) ==
  \/ \E a \in RunArgs(Cs) : run(a)
  \/ searchFails
  \/ searchSucceeds
  \/ \E c \in Cs, raw \in Results : querySucceeds(c, raw)
  \/ \E c \in Cs : queryFails(c)
  \/ \E c \in Cs, h \in Fetched : priceSucceeds(c, h)
  \/ \E c \in Cs : priceFails(c)
  \/ \E c \in Cs, i \in 1..MaxBatch, o \in Outcomes : pageDone(c, i, o)
  \/ \E w \in writes : insertSucceeds(w)
  \/ \E w \in writes : insertFails(w)

\* the documents the store can hold before the first run
InitialStores(Cs, Tickers) ==
  UNION {[S -> [ticker : Tickers, history : {<<>>}, price_history : {<<>>}]] :
           S \in SUBSET Cs}

NoProbe == [date |-> NoDate, priceList |-> <<>>, pair |-> <<>>, done |-> FALSE]

JobInit(Stores) ==
  /\ configured \in BOOLEAN
  /\ store \in Stores
  /\ runs = 0
  /\ companies = NoArg
  /\ result = "idle"
  /\ listing = "none"
  /\ docs = <<>>
  /\ query = [c \in Companies |-> "none"]
  /\ articleData = <<>>
  /\ delivered = FALSE
  /\ branch = [c \in Companies |-> NoBranch]
  /\ writes = {}
  /\ failed = {}
  /\ duplicates = {}

InitOver(Cs, Tickers) == JobInit(InitialStores(Cs, Tickers)) /\ probe = NoProbe

(***************************************************************************)
(* Spec: runs over two companies, each with one article in the news.       *)
(***************************************************************************)
RunArticles == {[url |-> 1, date |-> 1, img |-> FALSE]}
RunPrices == {[d \in PriceDays |-> 11]}

Init == InitOver(Companies, BOOLEAN)

Next == NextOver(Companies, SeqsUpTo(RunArticles, MaxBatch), RunPrices, {"noimage", "error"})

Spec == Init /\ [][Next]_vars

(***************************************************************************)
(* Properties of a run, under Spec.                                        *)
(***************************************************************************)
\* the companies of the run, once the list is resolved
listed == IF listing = "done" THEN companies.list ELSE {}

\* the calls of insertOrUpdate of the current run that are pending
pendingWrites == {w \in writes : w.run = runs}

\* no discovery query, price request, page request or insertOrUpdate was
\* issued in the current run
noCallIssued ==
  /\ \A c \in Companies : query[c] = "none" /\ branch[c].phase = "none"
  /\ pendingWrites = {}
  /\ failed = {}

C2_ResolvedAfterPersist == result = "resolved" => pendingWrites = {}

\* the history a branch that is done leaves in the record of its company
mergedInto(c) ==
  IF branch[c].newArticles = <<>>
    THEN docs[c].history = branch[c].existing
    ELSE docs[c].history \in mergedHistories(branch[c].existing, branch[c].newArticles)

\* C3: once the listing and every discovery query of the run have succeeded
\* for a non-empty list, run() is never rejected, it is resolved as soon as
\* every company's branch is done, and when it is resolved the records in
\* memory hold, for every company of the list, the history with the new
\* articles merged, whether its price request, page requests or store write
\* failed or not.
C3_FailuresAbsorbed ==
  (listed # {} /\ \A c \in listed : query[c] = "ok")
    => /\ result # "rejected"
       /\ (\A c \in listed : branch[c].phase = "done") <=> result = "resolved"
       /\ result = "resolved" =>
            \A c \in listed : c \in DOMAIN docs /\ mergedInto(c)

\* a resolved run in which the price request of a company failed, the request
\* of the page of its new article failed and its store write failed
C3_Witness ==
  /\ result = "resolved"
  /\ \E c \in listed :
       /\ c \in failed
       /\ branch[c].price = "failed"
       /\ branch[c].pages = <<"error">>
       /\ branch[c].newArticles # <<>>
       /\ docs[c].history = branch[c].newArticles
       /\ (c \notin DOMAIN store \/ store[c].history = <<>>)

\* C4: run() is rejected and has issued no call when the system is not
\* configured, when the listing failed, and when the list of companies is
\* empty once resolved.
C4_RejectsWithoutCalls ==
  /\ (runs > 0 /\ ~configured) => (result = "rejected" /\ listing = "none" /\ noCallIssued)
  /\ listing = "failed" => (result = "rejected" /\ noCallIssued)
  /\ (listing = "done" /\ companies.list = {}) => (result = "rejected" /\ noCallIssued)

\* a second run, without a list, over a store that holds no record
C4_Witness ==
  /\ configured
  /\ runs = MaxRuns
  /\ listing = "done"
  /\ companies.list = {}
  /\ store = <<>>
  /\ result = "rejected"

(***************************************************************************)
(* SpecHung: the first run of Spec, in which every call made for the        *)
(* company c2 and the listing complete, while a call made for c1 may never *)
(* complete.                                                               *)
(***************************************************************************)
\* the steps of Spec, but run() is not called a second time
NextHung ==
  \/ \E a \in RunArgs(Companies) : runs = 0 /\ run(a)
  \/ searchFails
  \/ searchSucceeds
  \/ \E c \in Companies, raw \in SeqsUpTo(RunArticles, MaxBatch) : querySucceeds(c, raw)
  \/ \E c \in Companies : queryFails(c)
  \/ \E c \in Companies, h \in RunPrices : priceSucceeds(c, h)
  \/ \E c \in Companies : priceFails(c)
  \/ \E c \in Companies, i \in 1..MaxBatch, o \in {"noimage", "error"} : pageDone(c, i, o)
  \/ \E w \in writes : insertSucceeds(w)
  \/ \E w \in writes : insertFails(w)

\* the listing of the store completes
listingSettles == searchSucceeds \/ searchFails

\* the discovery query of company c completes
querySettles(c) ==
  \/ queryFails(c)
  \/ \E raw \in SeqsUpTo(RunArticles, MaxBatch) : querySucceeds(c, raw)

\* the price request of company c completes
priceSettles(c) ==
  \/ priceFails(c)
  \/ \E h \in RunPrices : priceSucceeds(c, h)

\* a page request of company c completes
pageSettles(c) ==
  \E i \in 1..MaxBatch, o \in {"noimage", "error"} : pageDone(c, i, o)

SpecHung ==
  /\ Init
  /\ [][NextHung]_vars
  /\ WF_vars(listingSettles)
  /\ WF_vars(querySettles("c2"))
  /\ WF_vars(priceSettles("c2"))
  /\ WF_vars(pageSettles("c2"))

\* the discovery result of company c holds an article its record lacks
hasNewArticles(c) ==
  /\ c \in DOMAIN articleData
  /\ filterNewArticles(articleData[c],
                       IF c \in DOMAIN docs THEN docs[c].history ELSE <<>>) # <<>>

\* the record of company c has just been passed to insertOrUpdate
recordPassed(c) ==
  /\ branch[c].phase = "done"
  /\ \E w \in pendingWrites : w.company = c /\ w.doc = docs[c]

SpecCompleting ==
  /\ Init
  /\ [][NextHung]_vars
  /\ WF_vars(listingSettles)
  /\ \A c \in Companies : WF_vars(querySettles(c))
  /\ \A c \in Companies : WF_vars(priceSettles(c))
  /\ \A c \in Companies : WF_vars(pageSettles(c))

\* the promise run() returned has settled
settled == result \in {"resolved", "rejected"}

\* C20: when every call of the listing, of discovery, of the prices and of
\* the pages completes, the promise run() returned settles, and once it is
\* resolved or rejected it stays as it is for the rest of the run.
C20_RunSettlesOnce ==
  /\ (result = "pending") ~> settled
  /\ [][settled => result' = result]_vars

\* the promise of run() has resolved after the price request of a company
\* failed and the request of a page of the company failed
C20_Witness ==
  /\ result = "resolved"
  /\ \A c \in Companies : query[c] = "ok" /\ branch[c].phase = "done"
  /\ \E c \in Companies :
       /\ branch[c].price = "failed"
       /\ \E x \in 1..Len(branch[c].pages) : branch[c].pages[x] = "error"

(***************************************************************************)
(* Properties of the branches of the companies, under Spec.                *)
(***************************************************************************)
\* the calls of insertOrUpdate for company c that are pending
writesOf(c) == {w \in writes : w.company = c}

\* a step of the branch of company c: its price request or one of its page
\* requests completes
branchStep(c) ==
  /\ branch[c].phase \in {"price", "images"}
  /\ branch'[c] # branch[c]
  /\ runs' = runs

\* the step leaves alone the record, the branch and the writes of the
\* companies other than c
othersUntouched(c) ==
  \A d \in Companies \ {c} :
    /\ branch'[d] = branch[d]
    /\ writesOf(d)' = writesOf(d)
    /\ d \in DOMAIN docs => docs'[d] = docs[d]

\* what the step makes of the record of c comes from the record and the
\* branch of c alone
ownRecordOnly(c) ==
  /\ docs'[c].ticker = docs[c].ticker
  /\ IF branch'[c].phase = "done"
       THEN /\ docs'[c].history \in mergedHistories(docs[c].history, branch'[c].newArticles)
            /\ docs'[c].price_history = docs[c].price_history
            /\ writesOf(c)' = writesOf(c) \cup {[company |-> c, doc |-> docs'[c], run |-> runs]}
       ELSE /\ docs'[c].history = docs[c].history
            /\ writesOf(c)' = writesOf(c)
            /\ docs'[c].price_history \in
                 {docs[c].price_history} \cup
                 {filterPriceHistory(combinePriceHistory(docs[c].price_history, h),
                                     branch[c].existing \o branch[c].newArticles) :
                    h \in RunPrices}

\* C13: a step of the branch of a company reads and writes only the record
\* of that company: it leaves the records, branches and store writes of the
\* other companies as they are, and the record it passes to insertOrUpdate
\* is made from the record and the articles of its own company, whatever
\* the state of the other branches.
C13_NoContention ==
  [][\A c \in Companies : branchStep(c) => (othersUntouched(c) /\ ownRecordOnly(c))]_vars

\* the records of both companies have been passed to insertOrUpdate in one
\* run and neither write has settled, with prices for c1 and none for c2
C13_Witness ==
  /\ recordPassed("c1")
  /\ recordPassed("c2")
  /\ branch["c1"].price = "ok"
  /\ branch["c2"].price = "failed"
  /\ docs["c1"].price_history # docs["c2"].price_history

\* the branch of company c has found no new article
noNewArticles(c) == branch[c].phase # "none" /\ branch[c].newArticles = <<>>

\* no price request, no page request and no insertOrUpdate is or was made
\* for company c in the run
noCallFor(c) ==
  /\ branch[c].phase = "done"
  /\ branch[c].price = "none"
  /\ branch[c].pages = <<>>
  /\ \A w \in pendingWrites : w.company # c
  /\ c \notin failed

\* the step leaves the record of company c in memory as the listing gave it
\* (or, for a company the store lacks, as line 273 makes it)
recordKept(c) ==
  IF noNewArticles(c)
    THEN docs'[c] = docs[c]
    ELSE docs'[c] = IF c \in DOMAIN docs THEN docs[c] ELSE newStockDatum

\* C14: when no article fetched for a company is new, the run makes no price
\* request, no page request and no insertOrUpdate for the company, and the
\* history and the price history of its record stay what they were.
C14_NoNewArticlesUntouched ==
  /\ [](\A c \in Companies : noNewArticles(c) => noCallFor(c))
  /\ [][\A c \in Companies : (noNewArticles(c)' /\ runs' = runs) => recordKept(c)]_vars

\* a run has fetched for c1 an article that is in its history, the run is
\* resolved and the record of c1 is the record of the store
C14_Witness ==
  /\ noNewArticles("c1")
  /\ articleData["c1"] # <<>>
  /\ branch["c1"].existing # <<>>
  /\ result = "resolved"
  /\ docs["c1"] = store["c1"]
  /\ writes = {}

(***************************************************************************)
(* SpecOne: runs over one company with every article in the news.          *)
(***************************************************************************)
\* the crawl date of the article of URL u: of four articles the first is the
\* oldest, the second and the fourth are of the latest date and the third has
\* no date
CatalogDate(u) ==
  CASE u % 4 = 1 -> 1
    [] u % 4 = 2 -> MaxDate
    [] u % 4 = 3 -> NoDate
    [] OTHER -> MaxDate

AllArticles == {[url |-> u, date |-> CatalogDate(u), img |-> FALSE] : u \in Urls}

InitOne == InitOver({"c1"}, {TRUE})

NextOne == NextOver({"c1"}, SeqsUpTo(AllArticles, MaxBatch), {<<>>}, {"noimage"})

SpecOne == InitOne /\ [][NextOne]_vars

(***************************************************************************)
(* Properties of the merge, under SpecOne.                                 *)
(***************************************************************************)
\* the companies whose branch has merged new articles in the current run
merged == {c \in Companies : branch[c].phase = "done" /\ branch[c].newArticles # <<>>}

\* existingArticles.concat(newArticles) of the merge of company c, line 156
concatOf(c) == branch[c].existing \o branch[c].newArticles

\* C5: every record passed to insertOrUpdate has a history of at most
\* MAX_ARTICLES_PER_COMPANY articles.
C5_HistoryCap ==
  \A w \in writes : Len(w.doc.history) <= MAX_ARTICLES_PER_COMPANY

\* a record passed to insertOrUpdate after a merge of more existing and new
\* articles than the maximum
C5_Witness ==
  \E w \in pendingWrites :
    /\ w.company \in merged
    /\ branch[w.company].existing # <<>>
    /\ Len(concatOf(w.company)) > MAX_ARTICLES_PER_COMPANY
    /\ Len(w.doc.history) = MAX_ARTICLES_PER_COMPANY

\* the articles of the concatenation that the merge of company c dropped
droppedOf(c) ==
  {a \in Range(concatOf(c)) : ~articleContains(a, docs[c].history)}

\* C6: when the existing history and the new articles are more than
\* MAX_ARTICLES_PER_COMPANY together, the stored history has exactly
\* MAX_ARTICLES_PER_COMPANY articles and no dropped article has a date later
\* than the date of a kept article.
C6_CapKeepsMostRecent ==
  \A c \in merged :
    Len(concatOf(c)) > MAX_ARTICLES_PER_COMPANY
      => /\ Len(docs[c].history) = MAX_ARTICLES_PER_COMPANY
         /\ \A d \in droppedOf(c) : \A k \in Range(docs[c].history) :
              (d.date # NoDate /\ k.date # NoDate) => d.date <= k.date

\* no two articles of the history have the same URL
uniqueUrls(history) ==
  \A i, j \in 1..Len(history) : history[i].url = history[j].url => i = j

\* C7: every record passed to insertOrUpdate has no two history articles
\* with the same URL.
C7_UniqueUrls == \A w \in writes : uniqueUrls(w.doc.history)

\* a record passed to insertOrUpdate after a discovery result that returned a
\* new article and an article whose URL was already in the history
C7_Witness ==
  \E w \in pendingWrites :
    /\ w.company \in merged
    /\ \E x \in 1..Len(articleData[w.company]) :
         articleContains(articleData[w.company][x], branch[w.company].existing)
    /\ Len(w.doc.history) = Len(branch[w.company].existing) + 1

\* the new articles a second merge of the same discovery result computes for
\* company c, lines 280-289
newArticlesAgain(c) == filterNewArticles(articleData[c], docs[c].history)

\* C8 as the spec states it: after a merge of a batch, a second merge of the
\* same batch computes no new article, for every history and every batch.
C8_SecondMergeEmpty ==
  \A c \in Companies : branch[c].phase = "done" => newArticlesAgain(c) = <<>>

\* C8 amended: after a merge of a batch in which the existing history and the
\* new articles are at most MAX_ARTICLES_PER_COMPANY together, a second merge
\* of the same batch computes no new article; in every merge the new articles
\* the second merge computes are articles the first merge dropped.
C8_SecondMergeEmptyUnderCap ==
  \A c \in Companies :
    branch[c].phase = "done" =>
      /\ Len(concatOf(c)) <= MAX_ARTICLES_PER_COMPANY => newArticlesAgain(c) = <<>>
      /\ Range(newArticlesAgain(c)) \subseteq droppedOf(c)

\* a merge of a batch of new articles and of articles of the history that
\* fills the history to the maximum
C8_Witness ==
  \E c \in merged :
    /\ branch[c].existing # <<>>
    /\ Len(concatOf(c)) = MAX_ARTICLES_PER_COMPANY
    /\ Len(articleData[c]) > Len(branch[c].newArticles)
    /\ newArticlesAgain(c) = <<>>

\* the position of the article of the URL of a in the sequence s
positionIn(a, s) == Min({i \in 1..Len(s) : s[i].url = a.url})

\* C9: after a merge the history is sorted by date from most recent to least
\* recent, and two articles with the same date are in the order they had in
\* the concatenation of the existing history and the new articles.
C9_SortedStable ==
  \A c \in merged :
    \A i, j \in 1..Len(docs[c].history) :
      LET a == docs[c].history[i]
          b == docs[c].history[j]
      IN (i < j /\ a.date # NoDate /\ b.date # NoDate)
           => /\ a.date >= b.date
              /\ a.date = b.date => positionIn(a, concatOf(c)) < positionIn(b, concatOf(c))

(***************************************************************************)
(* SpecTrim: runs over one company, with or without ticker, whose news     *)
(* come one article at a time and whose prices come as any price map.      *)
(***************************************************************************)
\* the discovery results: no article, or one of the articles
OneArticle == {<<>>} \cup {<<a>> : a \in AllArticles}

InitTrim == InitOver({"c1"}, BOOLEAN)

NextTrim == NextOver({"c1"}, OneArticle, PriceMap, {"noimage"})

SpecTrim == InitTrim /\ [][NextTrim]_vars

(***************************************************************************)
(* Properties of the prices of a record, under SpecTrim.                   *)
(***************************************************************************)
\* getLatestStockPrices rejected for company c: the request failed, or the
\* record has no ticker
priceRejected(c) == branch[c].price \in {"failed", "noticker"}

\* the step in which insertNewArticles is called back for company c passes
\* the record of c in memory to insertOrUpdate
passesRecord(c) ==
  (branch[c].phase # "done" /\ branch'[c].phase = "done" /\ branch'[c].newArticles # <<>>)
    => [company |-> c, doc |-> docs'[c], run |-> runs] \in writes' \ writes

\* C15: when the price request of a company with new articles fails, or its
\* record has no ticker, the price history of the record stays what the
\* store held before the run, the new articles are merged into the history
\* and the record is passed to insertOrUpdate.
C15_PriceFailureSoft ==
  /\ [](\A c \in Companies : priceRejected(c) =>
          /\ branch[c].newArticles # <<>>
          /\ docs[c].price_history = branch[c].stored
          /\ branch[c].phase \in {"images", "done"}
          /\ branch[c].phase = "done" => mergedInto(c)
          /\ \A w \in pendingWrites : w.company = c => w.doc = docs[c])
  /\ [][\A c \in Companies : priceRejected(c)' => passesRecord(c)]_vars

\* the record of c1 has been passed to insertOrUpdate with a new article and
\* the prices the store held, after its price request failed
C15_Witness ==
  /\ branch["c1"].price = "failed"
  /\ branch["c1"].stored # <<>>
  /\ branch["c1"].existing # <<>>
  /\ recordPassed("c1")
  /\ docs["c1"].price_history = store["c1"].price_history
  /\ Len(docs["c1"].history) > Len(store["c1"].history)

\* the price request of company c has succeeded
priceRefreshed(c) == branch[c].price = "ok"

\* the days of the dated articles, existing and new, of company c
articleDays(c) ==
  {convertArticleDateToAVDate(a.date) :
     a \in {b \in Range(branch[c].existing \o branch[c].newArticles) : b.date # NoDate}}

\* the price of day d after the refresh of company c: the fetched one, else
\* the stored one
refreshedPrice(c, d) ==
  IF d \in DOMAIN branch[c].fetched THEN branch[c].fetched[d] ELSE branch[c].stored[d]

\* the sorted price list of company c after the refresh
refreshedList(c) ==
  convertPriceMapToList([d \in DOMAIN branch[c].stored \cup DOMAIN branch[c].fetched |->
                           refreshedPrice(c, d)])

\* the pairs price alignment returns for the days of the articles of c
alignedPairs(c) ==
  UNION {Range(getPairForDate(d, refreshedList(c))) : d \in articleDays(c)}

\* the entries of a price history, as pairs
entriesOf(price_history) ==
  {[date |-> d, price |-> price_history[d]] : d \in DOMAIN price_history}

\* C16: after a successful price refresh the price history of the record, in
\* memory and as passed to insertOrUpdate, holds exactly the pairs that
\* getPairForDate returns for the distinct days of the existing and new
\* articles on the stored prices overlaid with the fetched ones; it has at
\* most one entry per such day.
C16_PriceTrimming ==
  \A c \in Companies : priceRefreshed(c) =>
    /\ entriesOf(docs[c].price_history) = alignedPairs(c)
    /\ Cardinality(DOMAIN docs[c].price_history) <= Cardinality(articleDays(c))
    /\ \A w \in pendingWrites : w.company = c => w.doc.price_history = docs[c].price_history

\* a record passed to insertOrUpdate after a refresh that brought another
\* price for a day the record had a price for, and a price for a day that
\* is dropped
C16_Witness ==
  /\ priceRefreshed("c1")
  /\ recordPassed("c1")
  /\ \E d \in DOMAIN branch["c1"].stored \cap DOMAIN branch["c1"].fetched :
       /\ branch["c1"].stored[d] # branch["c1"].fetched[d]
       /\ d \in DOMAIN docs["c1"].price_history
       /\ docs["c1"].price_history[d] = branch["c1"].fetched[d]
  /\ \E d \in DOMAIN branch["c1"].fetched : d \notin DOMAIN docs["c1"].price_history

\* the last pair of the sorted price list of company c after the refresh
latestPair(c) == refreshedList(c)[Len(refreshedList(c))]

\* C17 as stated: after a successful price refresh that yields a non-empty
\* price list, the price history of the record has an entry for the day of
\* every dated article, existing or new.
C17_EveryArticleDayPriced ==
  \A c \in Companies :
    (priceRefreshed(c) /\ refreshedList(c) # <<>>)
      => articleDays(c) \subseteq DOMAIN docs[c].price_history

\* C17 amended: after such a refresh the price history has an entry for the
\* day of every dated article that is not after the day of the latest price;
\* for an article dated after it the price history has the latest pair,
\* under the day of that pair, and no entry for the day of the article.
C17_ArticleDaysPricedUpToLatest ==
  \A c \in Companies :
    (priceRefreshed(c) /\ refreshedList(c) # <<>>)
      => \A d \in articleDays(c) :
           IF d <= latestPair(c).date
             THEN d \in DOMAIN docs[c].price_history
             ELSE /\ d \notin DOMAIN docs[c].price_history
                  /\ latestPair(c).date \in DOMAIN docs[c].price_history
                  /\ docs[c].price_history[latestPair(c).date] = latestPair(c).price

\* a record passed to insertOrUpdate after a refresh, with an article dated
\* after every price and an article that is not
C17_Witness ==
  /\ priceRefreshed("c1")
  /\ recordPassed("c1")
  /\ refreshedList("c1") # <<>>
  /\ \E d \in articleDays("c1") : d > latestPair("c1").date
  /\ \E d \in articleDays("c1") : d <= latestPair("c1").date

(***************************************************************************)
(* SpecImages: a first run over one company, with every article in the     *)
(* news and every outcome of the request of a page.                        *)
(***************************************************************************)
InitImages == InitOver({"c1"}, BOOLEAN)

NextImages ==
  \/ \E a \in RunArgs({"c1"}) : runs = 0 /\ run(a)
  \/ searchFails
  \/ searchSucceeds
  \/ \E raw \in SeqsUpTo(AllArticles, MaxBatch) : querySucceeds("c1", raw)
  \/ queryFails("c1")
  \/ \E h \in {<<>>} : priceSucceeds("c1", h)
  \/ priceFails("c1")
  \/ \E i \in 1..MaxBatch, o \in PageOutcomes : pageDone("c1", i, o)
  \/ \E w \in writes : insertSucceeds(w)
  \/ \E w \in writes : insertFails(w)

SpecImages == InitImages /\ [][NextImages]_vars

\* a promise of getImageForArticle of company c is pending
imagePending(c) ==
  \E x \in 1..Len(branch[c].images) : branch[c].images[x].state = "pending"

\* C18: getImages resolves when every page request of the batch has called
\* back, not before and whatever the outcomes; the articles that get an
\* image URL are exactly those whose page had an image, and the articles of
\* the batch, with or without image URL, are merged into the history and the
\* record is passed to insertOrUpdate.
C18_ImagesAllSettle ==
  \A c \in Companies :
    /\ branch[c].phase = "images" =>
         /\ imagePending(c)
         /\ docs[c].history = branch[c].existing
         /\ \A w \in pendingWrites : w.company # c
    /\ (branch[c].phase = "done" /\ branch[c].newArticles # <<>>) =>
         /\ ~imagePending(c)
         /\ Len(branch[c].pages) = Len(branch[c].newArticles)
         /\ \A y \in 1..Len(branch[c].newArticles) :
              branch[c].newArticles[y].img = (branch[c].pages[y] = "found")
         /\ mergedInto(c)
         /\ result = "resolved"

\* the record has been passed to insertOrUpdate with two new articles, for
\* one of which the page request failed and for the other of which an image
\* was found
C18_Witness ==
  /\ recordPassed("c1")
  /\ \E x, y \in 1..Len(branch["c1"].pages) :
       /\ branch["c1"].pages[x] = "error"
       /\ branch["c1"].pages[y] = "found"
       /\ x < y
  /\ \E a, b \in Range(docs["c1"].history) : a.img /\ ~b.img

\* C19 as the spec states it: the promise of getImageForArticle never
\* rejects.
C19_ImageNeverRejects ==
  \A c \in Companies : \A x \in 1..Len(branch[c].images) :
    branch[c].images[x].state \in {"pending", "resolved"}

\* C19 amended: the promise of getImageForArticle resolves with the result
\* when the page has an image and with undefined when it has none, and
\* rejects on an error of the request; the rejection stays inside getImages,
\* which treats it as no image.
C19_ImageRejectsOnError ==
  \A c \in Companies : \A x \in 1..Len(branch[c].images) :
    LET image == branch[c].images[x]
        page == branch[c].pages[x]
    IN /\ page = "pending" <=> image.state = "pending"
       /\ page = "found" <=> (image.state = "resolved" /\ image.value = "image")
       /\ page = "noimage" <=> (image.state = "resolved" /\ image.value = "undefined")
       /\ page = "error" <=> image.state = "rejected"
       /\ (image.state = "rejected" /\ branch[c].phase = "done")
            => (~branch[c].newArticles[x].img /\ result = "resolved")

\* the promise of getImageForArticle of the one new article has rejected and
\* the record has been passed to insertOrUpdate with the article
C19_Witness ==
  /\ recordPassed("c1")
  /\ Len(branch["c1"].images) = 1
  /\ branch["c1"].images[1].state = "rejected"
  /\ Len(docs["c1"].history) = 1

(***************************************************************************)
(* SpecPrice: getPairForDate on every day and every price list the         *)
(* market-data API can give (a price list comes from a price map, so its   *)
(* dates ascend and differ).                                               *)
(***************************************************************************)
InitPrice ==
  /\ configured = TRUE
  /\ store = <<>>
  /\ runs = 0
  /\ companies = NoArg
  /\ result = "idle"
  /\ listing = "none"
  /\ docs = <<>>
  /\ query = [c \in Companies |-> "none"]
  /\ articleData = <<>>
  /\ delivered = FALSE
  /\ branch = [c \in Companies |-> NoBranch]
  /\ writes = {}
  /\ failed = {}
  /\ duplicates = {}
  /\ probe \in [date : PriceDays, priceList : {convertPriceMapToList(m) : m \in PriceMap},
                pair : {<<>>}, done : {FALSE}]

callGetPairForDate ==
  /\ ~probe.done
  /\ probe' = [probe EXCEPT !.pair = getPairForDate(probe.date, probe.priceList),
                            !.done = TRUE]
  /\ UNCHANGED jobVars

NextPrice == callGetPairForDate

SpecPrice == InitPrice /\ [][NextPrice]_vars

(***************************************************************************)
(* Properties of getPairForDate, under SpecPrice.                          *)
(***************************************************************************)
\* the positions of the pairs of the probed list dated on or before the date
onOrBefore == {i \in 1..Len(probe.priceList) : probe.priceList[i].date <= probe.date}

\* the positions of the pairs of the probed list dated after the date
laterPairs == {i \in 1..Len(probe.priceList) : probe.priceList[i].date > probe.date}

\* C10: for a price list ascending by date and a date not earlier than the
\* date of its first pair, getPairForDate returns a pair with the price of
\* the latest pair dated on or before the date: the pair of the date when
\* there is one, else a pair of the date with the price of the pair before
\* the first later pair, else (the date is after every pair) the last pair.
C10_PriceAlignment ==
  (probe.done /\ probe.priceList # <<>> /\ probe.date >= probe.priceList[1].date)
    => /\ probe.pair # <<>>
       /\ LET latest == probe.priceList[Max(onOrBefore)]
              pair == probe.pair[1]
          IN /\ pair.price = latest.price
             /\ latest.date = probe.date => pair = latest
             /\ (latest.date # probe.date /\ laterPairs # {})
                  => pair = [date |-> probe.date, price |-> latest.price]
             /\ (latest.date # probe.date /\ laterPairs = {})
                  => pair = probe.priceList[Len(probe.priceList)]

\* getPairForDate returned for a date between two pairs of different prices
C10_Witness ==
  /\ probe.done
  /\ probe.pair # <<>>
  /\ \E i \in 1..(Len(probe.priceList) - 1) :
       /\ probe.priceList[i].date < probe.date
       /\ probe.date < probe.priceList[i + 1].date
       /\ probe.priceList[i].price # probe.priceList[i + 1].price
       /\ probe.pair[1] = [date |-> probe.date, price |-> probe.priceList[i].price]

\* C11: for a non-empty ascending price list and a date earlier than the date
\* of every pair, getPairForDate returns a pair of that date with the price
\* of the first pair of the list; for an empty list it returns undefined.
C11_NoPriorPrice ==
  probe.done =>
    /\ (probe.priceList # <<>> /\ probe.date < probe.priceList[1].date)
         => probe.pair = <<[date |-> probe.date, price |-> probe.priceList[1].price]>>
    /\ probe.priceList = <<>> => probe.pair = <<>>

\* getPairForDate returned for a date before the two pairs, of different
\* prices, of a list
C11_Witness ==
  /\ probe.done
  /\ Len(probe.priceList) = 2
  /\ probe.date < probe.priceList[1].date
  /\ probe.priceList[1].price # probe.priceList[2].price
  /\ probe.pair = <<[date |-> probe.date, price |-> probe.priceList[1].price]>>

====
